---- MODULE Spec2Model ----
(***************************************************************************)
(* glacier-rsync: the backup loop of BackupUtil (backup_util.py), the      *)
(* signal handler of main (__main__.py) and the FileCache read adapter     *)
(* (file_cache.py), as a state machine.                                    *)
(*                                                                         *)
(* Bytes are small integers, byte strings are sequences of them.  Python's *)
(* None is the value None below when it stands for a byte string, and      *)
(* NoArchive when it stands for the archive dictionary.                    *)
(***************************************************************************)
EXTENDS Integers, Sequences, FiniteSets, TLC

\* ------------------------------------------------------------------ bounds
NumFiles == 3      \* candidate files found by os.walk
MaxSize == 1       \* largest file size, in bytes
MaxParts == 3      \* cap on the parts of one upload session
MaxLen == 3        \* SpecFC: longest raw file
MaxReads == 6      \* SpecFC: cap on the read() calls on one FileCache
MaxRequested == 4  \* SpecPS: largest requested part size
MaxFactor == 4     \* SpecPS: file sizes reach 10000 * MaxFactor + 1
MaxDigests == 5    \* SpecTH: longest list of checksums

\* ---------------------------------------------------------- program constants
FORCE_STOP_LIMIT == 3
write_size == 8192

None == <<-1>>

Min(a, b) == IF a < b THEN a ELSE b

RECURSIVE Concat(_)
Concat(ss) == IF ss = <<>> THEN <<>> ELSE Head(ss) \o Concat(Tail(ss))

\* ------------------------------------------------------------- file objects
\* open(file, 'rb'): a handle on the bytes the file holds, positioned at 0.
open_rb(data) == [mode |-> "rb", data |-> data, pos |-> 0]

\* io.BufferedReader.readable(): whether the handle was opened for reading.
readable(f) == f.mode = "rb"

\* io.BufferedReader.read(n): up to n bytes from the position; b"" at EOF.
file_read(f, n) ==
  LET end == Min(f.pos + n, Len(f.data))
  IN [rv |-> SubSeq(f.data, f.pos + 1, end), f |-> [f EXCEPT !.pos = end]]

\* ------------------------------------------------------------ zstd (library)
\* ZstdCompressor: one frame for the whole input: a header, then the coded
\* bytes.  An empty input still yields the header.
zstd_compress(data) == <<0>> \o [i \in 1..Len(data) |-> data[i] + 10]

zstd_decompress(frame) == [i \in 1..(Len(frame) - 1) |-> frame[i + 1] - 10]

\* All ways read_to_iter may cut its output into non-empty chunks of at most
\* write_size bytes.
RECURSIVE Splits(_)
Splits(s) ==
  IF s = <<>> THEN {<<>>}
  ELSE UNION { { <<SubSeq(s, 1, k)>> \o rest : rest \in Splits(SubSeq(s, k + 1, Len(s))) } :
               k \in 1..Min(Len(s), write_size) }

\* ---------------------------------------------------------------- FileCache
FileCache_no_pending(f, compression, chunks) ==
  [compression |-> compression, f |-> f,
   reader |-> [chunks |-> IF compression THEN chunks ELSE <<>>, idx |-> 0],
   next_chunk |-> None]

\* FileCache.__init__: chunks is what the compressor's iterator will yield;
\* without compression the reader is the file itself and chunks is unused.
FileCache(f, compression, chunks) ==
  [compression |-> compression, f |-> f,
   reader |-> [chunks |-> IF compression THEN chunks ELSE <<>>, idx |-> 0],
   next_chunk |-> <<>>]

\* self.reader.__next__() raises StopIteration once every chunk was yielded.
reader_exhausted(fc) == fc.reader.idx >= Len(fc.reader.chunks)

grow_chunk_lossy(fc) ==
  [fc EXCEPT !.next_chunk = fc.reader.chunks[fc.reader.idx + 1],
             !.reader.idx = fc.reader.idx + 1]

\* FileCache.grow_chunk, when __next__ yields a chunk.
grow_chunk(fc) ==
  [fc EXCEPT !.next_chunk = fc.next_chunk \o fc.reader.chunks[fc.reader.idx + 1],
             !.reader.idx = fc.reader.idx + 1]

RECURSIVE read_compressed_unmarked(_, _)
read_compressed_unmarked(fc, n) ==
  IF Len(fc.next_chunk) < n
  THEN IF reader_exhausted(fc)
       THEN [rv |-> fc.next_chunk, fc |-> [fc EXCEPT !.next_chunk = <<>>]]
       ELSE read_compressed_unmarked(grow_chunk(fc), n)
  ELSE [rv |-> SubSeq(fc.next_chunk, 1, n),
        fc |-> [fc EXCEPT !.next_chunk = SubSeq(fc.next_chunk, n + 1, Len(fc.next_chunk))]]

\* FileCache.read, compression branch: the while loop and the except clause.
RECURSIVE read_compressed(_, _)
read_compressed(fc, n) ==
  IF Len(fc.next_chunk) < n
  THEN IF reader_exhausted(fc)
       THEN [rv |-> fc.next_chunk, fc |-> [fc EXCEPT !.next_chunk = None]]
       ELSE read_compressed(grow_chunk(fc), n)
  ELSE [rv |-> SubSeq(fc.next_chunk, 1, n),
        fc |-> [fc EXCEPT !.next_chunk = SubSeq(fc.next_chunk, n + 1, Len(fc.next_chunk))]]

\* FileCache.read(n): the value returned and the FileCache afterwards.
FileCache_read(fc, n) ==
  IF fc.compression
  THEN IF fc.next_chunk = None
       THEN [rv |-> None, fc |-> fc]
       ELSE read_compressed(fc, n)
  ELSE IF ~readable(fc.f)
       THEN [rv |-> None, fc |-> fc]
       ELSE LET r == file_read(fc.f, n)
            IN [rv |-> r.rv, fc |-> [fc EXCEPT !.f = r.f]]

\* ------------------------------------------------------------------ TreeHash
\* hashlib.sha256 of the raw bytes of two digests, as a symbolic digest.
sha256_pair(a, b) == <<"sha256", a, b>>

\* The checksum the service returns for an uploaded part.
part_checksum(body) == <<"sha256", body>>

tree_level_drops_odd(tree) ==
  [k \in 1..(Len(tree) \div 2) |-> sha256_pair(tree[2 * k - 1], tree[2 * k])]

\* One level of the fold: consecutive pairs, an unpaired last digest carried up.
tree_level(tree) ==
  [k \in 1..((Len(tree) + 1) \div 2) |->
     IF 2 * k <= Len(tree) THEN sha256_pair(tree[2 * k - 1], tree[2 * k])
     ELSE tree[2 * k - 1]]

\* BackupUtil.calculate_total_tree_hash, for a non-empty list (tree[0] of an
\* empty list raises IndexError: see Backup_complete).
RECURSIVE calculate_total_tree_hash(_)
calculate_total_tree_hash(checksums) ==
  IF Len(checksums) > 1 THEN calculate_total_tree_hash(tree_level(checksums))
  ELSE checksums[1]

\* ----------------------------------------------------------------- PartSizer
RECURSIVE decide_part_size_eager(_, _)
decide_part_size_eager(file_size, part_size) ==
  IF file_size >= 10000 * part_size THEN decide_part_size_eager(file_size, 2 * part_size)
  ELSE part_size

\* BackupUtil.decide_part_size: file_size / part_size > 10000, on integers.
RECURSIVE decide_part_size(_, _)
decide_part_size(file_size, part_size) ==
  IF file_size > 10000 * part_size THEN decide_part_size(file_size, 2 * part_size)
  ELSE part_size

\* ------------------------------------------------------------ SQL statements
\* str(n) inside the f-string that builds the statement: decimal digits.
RECURSIVE str_num(_)
str_num(n) == IF n < 10 THEN <<n>> ELSE str_num(n \div 10) \o <<n % 10>>

\* The value SQLite reads from a numeric literal.
RECURSIVE sql_num(_)
sql_num(s) ==
  IF s = <<>> THEN 0 ELSE 10 * sql_num(SubSeq(s, 1, Len(s) - 1)) + s[Len(s)]

where_ignores_mtime(row, path, file_size, mtime) ==
  /\ row.path = path
  /\ row.file_size = sql_num(str_num(file_size))

\* where path='{path}' and file_size={file_size} and mtime={mtime}
where_matches(row, path, file_size, mtime) ==
  /\ row.path = path
  /\ row.file_size = sql_num(str_num(file_size))
  /\ row.mtime = sql_num(str_num(mtime))

\* select * from sync_history where ...: the indices of the rows fetched.
select_rows(rows, path, file_size, mtime) ==
  {i \in 1..Len(rows) : where_matches(rows[i], path, file_size, mtime)}

NoArchive == [archiveId |-> 0, location |-> 0, checksum |-> <<>>, date |-> "none"]

insert_always(rows, path, stat, arch, compression) ==
  Append(rows, [path |-> path,
                file_size |-> sql_num(str_num(stat.size)),
                mtime |-> sql_num(str_num(stat.mtime)),
                archive_id |-> arch.archiveId, location |-> arch.location,
                checksum |-> arch.checksum,
                compression |-> IF compression THEN "zstd" ELSE "plain",
                timestamp |-> arch.date])

\* BackupUtil._mark_backed_up: the table after the call, given the stat read
\* at line 251; nothing is written when the archive is None.
mark_backed_up_rows(rows, path, stat, arch, compression) ==
  IF arch = NoArchive THEN rows
  ELSE Append(rows, [path |-> path,
                     file_size |-> sql_num(str_num(stat.size)),
                     mtime |-> sql_num(str_num(stat.mtime)),
                     archive_id |-> arch.archiveId, location |-> arch.location,
                     checksum |-> arch.checksum,
                     compression |-> IF compression THEN "zstd" ELSE "plain",
                     timestamp |-> arch.date])

\* -------------------------------------------------------------- exit status
exit_status_merged(cause) ==
  CASE cause = "schema" -> 2
    [] cause = "lookup" -> 1
    [] cause = "insert" -> 1
    [] cause = "force" -> 0
    [] cause = "normal" -> 0
    [] OTHER -> 1

\* The status the process ends with: sys.exit(2) at the schema creation,
\* sys.exit(3) at the lookup, sys.exit(1) at the insert, sys.exit(0) in the
\* signal handler, 0 when main returns, 1 for an uncaught exception.
exit_status_of(cause) ==
  CASE cause = "schema" -> 2
    [] cause = "lookup" -> 3
    [] cause = "insert" -> 1
    [] cause = "force" -> 0
    [] cause = "normal" -> 0
    [] OTHER -> 1

DbFaults == {"schema", "lookup", "insert"}

\* ------------------------------------------------------------ signal handler
below_limit_off_by_one(count) == count <= FORCE_STOP_LIMIT

\* if stop_request_count < FORCE_STOP_LIMIT
below_force_limit(count) == count < FORCE_STOP_LIMIT

\* ------------------------------------------------------------------- state
VARIABLES
  compress,           \* args.compress
  base_part_size,     \* args.part_size
  files,              \* the source tree: path -> [size, mtime]
  records,            \* the rows of sync_history, in insertion order
  start_nrec,         \* how many rows earlier runs left in the table
  pc,                 \* where the main thread is
  exit_cause,         \* why the process ended
  exit_status,        \* the status it ended with
  continue_running,   \* BackupUtil.continue_running
  stop_request_count, \* the global of __main__
  conn_open,          \* whether self.conn is open
  idx,                \* position of the loop in file_list (1-based)
  file_size, mtime,   \* what _check_if_backed_up returned
  part_size,          \* what decide_part_size returned
  fc,                 \* compressed_file_object
  reads,              \* the values read() returned for this FileCache
  upload_id, byte_pos, list_of_checksums, archive,   \* locals of _backup
  total_tree_hash,    \* local of _backup: the checksum computed at line 220
  calls,              \* the remote calls of this iteration
  attempted,          \* paths with a remote call in this run
  failed,             \* paths with a failed remote call in this run
  stop_at             \* the last iteration entered before the first stop signal

vars == <<compress, base_part_size, files, records, start_nrec,
          pc, exit_cause, exit_status, continue_running, stop_request_count, conn_open,
          idx, file_size, mtime, part_size, fc, reads,
          upload_id, byte_pos, list_of_checksums, archive, total_tree_hash, calls,
          attempted, failed, stop_at>>

config == <<compress, base_part_size, files, start_nrec>>
flags == <<continue_running, stop_request_count, stop_at>>
locals == <<file_size, mtime, part_size, fc, reads>>
session == <<upload_id, byte_pos, list_of_checksums, archive, total_tree_hash, calls>>
history == <<attempted, failed>>

Paths == 1..NumFiles

\* backup(): the list os.walk builds, in enumeration order.
file_list == [i \in 1..NumFiles |-> i]

\* The bytes a file of the given size holds.
content(size) == [i \in 1..size |-> i]

\* The source tree: sizes 0, 1, ..., MaxSize, 0, ...; every mtime is 10.
SourceTree == [p \in Paths |-> [size |-> (p - 1) % (MaxSize + 1), mtime |-> 10]]

\* What an earlier, compressing run archived of a path: nothing, the file as it
\* is now, the file before its mtime changed, or before its size changed.
PriorKinds == {"none", "same", "older", "resized"}

prior_stat(st, kind) ==
  CASE kind = "older" -> [st EXCEPT !.mtime = st.mtime - 1]
    [] kind = "resized" -> [st EXCEPT !.size = (st.size + 1) % (MaxSize + 1)]
    [] OTHER -> st

\* The archive the service returned to that run for the path.
prior_archive(p, st) ==
  [archiveId |-> NumFiles + p, location |-> NumFiles + p,
   checksum |-> calculate_total_tree_hash(<<part_checksum(zstd_compress(content(st.size)))>>),
   date |-> "date"]

\* The table those runs left: their _mark_backed_up calls, in path order.
RECURSIVE prior_table(_, _)
prior_table(kinds, n) ==
  IF n = 0 THEN <<>>
  ELSE LET rows == prior_table(kinds, n - 1)
           st == prior_stat(SourceTree[n], kinds[n])
       IN IF kinds[n] = "none" THEN rows
          ELSE mark_backed_up_rows(rows, n, st, prior_archive(n, st), TRUE)

NoFile == FileCache(open_rb(<<>>), FALSE, <<>>)

IterationPcs == {"check", "compress", "initiate", "part", "complete", "mark"}

\* Values of the dead locals between iterations.
ClearLocals ==
  /\ file_size' = 0 /\ mtime' = 0 /\ part_size' = 0 /\ fc' = NoFile /\ reads' = <<>>
ClearSession ==
  /\ upload_id' = 0 /\ byte_pos' = 0 /\ list_of_checksums' = <<>>
  /\ archive' = NoArchive /\ total_tree_hash' = <<>> /\ calls' = <<>>

\* The process is started on a source tree and the table earlier runs left.
Init ==
  /\ compress \in BOOLEAN
  /\ base_part_size \in {1, 2}
  /\ files = SourceTree
  /\ \E kinds \in [Paths -> PriorKinds] : records = prior_table(kinds, NumFiles)
  /\ start_nrec = Len(records)
  /\ pc = "init" /\ exit_cause = "none" /\ exit_status = -1
  /\ continue_running = TRUE /\ stop_request_count = 0 /\ conn_open = FALSE
  /\ idx = 0
  /\ file_size = 0 /\ mtime = 0 /\ part_size = 0 /\ fc = NoFile /\ reads = <<>>
  /\ upload_id = 0 /\ byte_pos = 0 /\ list_of_checksums = <<>>
  /\ archive = NoArchive /\ total_tree_hash = <<>> /\ calls = <<>>
  /\ attempted = {} /\ failed = {}
  /\ stop_at = -1

\* The process ends: sys.exit(status), an uncaught exception, or main returning.
Exit(cause) ==
  /\ pc' = "exited"
  /\ exit_cause' = cause
  /\ exit_status' = exit_status_of(cause)
  /\ idx' = 0
  /\ ClearLocals /\ ClearSession

\* main(), up to the installation of the signal handlers: BackupUtil.__init__
\* connects and creates the table if it is absent.
Main_start ==
  /\ pc = "init"
  /\ \/ /\ conn_open' = TRUE
        /\ pc' = "enumerate"
        /\ UNCHANGED <<exit_cause, exit_status, idx, locals, session>>
     \/ /\ conn_open' = TRUE
        /\ Exit("schema")                    \* sqlite3.OperationalError
  /\ UNCHANGED <<config, records, flags, history>>

\* backup(), lines 68-76.
Backup_enumerate ==
  /\ pc = "enumerate"
  /\ idx' = 1
  /\ pc' = "loop"
  /\ UNCHANGED <<config, records, exit_cause, exit_status, flags,
                 conn_open, locals, session, history>>

loop_ignores_flag(i, running) == i <= Len(file_list)

\* for file_index, file in enumerate(file_list): if not self.continue_running: break
loop_enters(i, running) == i <= Len(file_list) /\ running

\* The head of the loop, lines 77-80.
Backup_loop ==
  /\ pc = "loop"
  /\ pc' = IF loop_enters(idx, continue_running) THEN "check" ELSE "finish"
  /\ UNCHANGED <<config, records, exit_cause, exit_status, flags,
                 conn_open, idx, locals, session, history>>

backed_up_only_if_twice(rows) == Cardinality(rows) > 1

\* return len(rows) > 0, ...
is_backed_up(rows) == Cardinality(rows) > 0

\* _check_if_backed_up and the branch on its result, lines 82-87 and 101-102.
Backup_check ==
  /\ pc = "check"
  /\ LET path == file_list[idx]
         st == files[path]
     IN \/ /\ Exit("OSError")                \* os.path.getsize raises
        \/ /\ Exit("lookup")                 \* sqlite3.OperationalError
        \/ /\ is_backed_up(select_rows(records, path, st.size, st.mtime))
           /\ pc' = "loop" /\ idx' = idx + 1
           /\ UNCHANGED <<exit_cause, exit_status, locals, session>>
        \/ /\ ~is_backed_up(select_rows(records, path, st.size, st.mtime))
           /\ file_size' = st.size /\ mtime' = st.mtime
           /\ part_size' = decide_part_size(st.size, base_part_size)
           /\ pc' = "compress"
           /\ UNCHANGED <<exit_cause, exit_status, idx, fc, reads, session>>
  /\ UNCHANGED <<config, records, flags, conn_open, history>>

\* _compress, line 89.
Backup_compress ==
  /\ pc = "compress"
  /\ \/ Exit("OSError")                      \* open(file, 'rb') raises
     \/ /\ compress
        /\ Exit("ValueError")                \* zstandard cannot be imported
     \/ /\ \E chunks \in Splits(zstd_compress(content(files[file_list[idx]].size))) :
             fc' = FileCache(open_rb(content(files[file_list[idx]].size)), compress, chunks)
        /\ reads' = <<>>
        /\ pc' = "initiate"
        /\ UNCHANGED <<exit_cause, exit_status, idx, file_size, mtime, part_size, session>>
  /\ UNCHANGED <<config, records, flags, conn_open, history>>

ClientError_retry(call) ==
  /\ archive' = NoArchive
  /\ calls' = Append(calls, call)
  /\ failed' = failed \cup {file_list[idx]}
  /\ attempted' = attempted \cup {file_list[idx]}
  /\ pc' = "initiate"

\* The except ClientError clause of _backup: log, return None.
ClientError(call) ==
  /\ archive' = NoArchive
  /\ calls' = Append(calls, call)
  /\ failed' = failed \cup {file_list[idx]}
  /\ attempted' = attempted \cup {file_list[idx]}
  /\ pc' = "mark"

\* The uploadId the service answers an initiate with: a fresh one each time
\* (the loop initiates at most once per file).
new_upload_id(i) == i

\* _backup, lines 191-201: initiate_multipart_upload.
Backup_initiate ==
  /\ pc = "initiate"
  /\ LET call == [op |-> "initiate", uploadId |-> new_upload_id(idx),
                  partSize |-> part_size,
                  description |-> <<file_list[idx], file_size, mtime>>]
     IN \/ /\ upload_id' = call.uploadId
           /\ byte_pos' = 0 /\ list_of_checksums' = <<>>
           /\ calls' = Append(calls, call @@ [ok |-> TRUE])
           /\ attempted' = attempted \cup {file_list[idx]}
           /\ pc' = "part"
           /\ UNCHANGED <<archive, total_tree_hash, failed>>
        \/ /\ ClientError([call EXCEPT !.uploadId = 0] @@ [ok |-> FALSE])
           /\ UNCHANGED <<upload_id, byte_pos, list_of_checksums, total_tree_hash>>
  /\ UNCHANGED <<config, records, exit_cause, exit_status, flags, conn_open, idx, locals>>

\* "{}".format(n) for an integer n: a sign and decimal digits.
str_int(n) == [neg |-> n < 0, digits |-> str_num(IF n < 0 THEN -n ELSE n)]

\* The integer the service reads from such a string.
int_of(s) == IF s.neg THEN -sql_num(s.digits) ELSE sql_num(s.digits)

range_header_end_exclusive(pos, chunk) ==
  [unit |-> "bytes", first |-> str_int(pos), last |-> str_int(pos + Len(chunk)),
   total |-> "*"]

\* "bytes {}-{}/*".format(byte_pos, byte_pos + len(chunk) - 1)
range_header(pos, chunk) ==
  [unit |-> "bytes", first |-> str_int(pos), last |-> str_int(pos + Len(chunk) - 1),
   total |-> "*"]

prepend_checksum(list, checksum) == <<checksum>> \o list

\* list_of_checksums.append(checksum)
append_checksum(list, checksum) == Append(list, checksum)

source_drained_on_empty(chunk) == chunk = None \/ chunk = <<>>

\* if chunk is None: break
source_drained(chunk) == chunk = None

\* _backup, lines 203-218: one pass of the while loop.
Backup_part ==
  /\ pc = "part"
  /\ LET r == FileCache_read(fc, part_size)
         chunk == r.rv
         call == [op |-> "part", uploadId |-> upload_id,
                  range |-> range_header(byte_pos, chunk), body |-> chunk]
     IN /\ fc' = r.fc
        /\ reads' = Append(reads, chunk)
        /\ IF source_drained(chunk)
           THEN /\ pc' = "complete"
                /\ UNCHANGED <<byte_pos, list_of_checksums, archive, calls, attempted, failed>>
           ELSE /\ Len(list_of_checksums) < MaxParts
                /\ byte_pos' = byte_pos + Len(chunk)
                /\ \/ /\ LET response == [checksum |-> part_checksum(chunk)]
                         IN /\ list_of_checksums' =
                                 append_checksum(list_of_checksums, response.checksum)
                            /\ calls' = Append(calls, call @@ [ok |-> TRUE, response |-> response])
                      /\ pc' = "part"
                      /\ UNCHANGED <<archive, attempted, failed>>
                   \/ /\ ClientError(call @@ [ok |-> FALSE])
                      /\ UNCHANGED <<list_of_checksums>>
  /\ UNCHANGED <<config, records, exit_cause, exit_status, flags,
                 conn_open, idx, file_size, mtime, part_size, upload_id, total_tree_hash>>

\* _backup, lines 220-232: complete_multipart_upload.
Backup_complete ==
  /\ pc = "complete"
  /\ IF list_of_checksums = <<>>
     THEN /\ Exit("IndexError")              \* tree[0] of an empty list
          /\ UNCHANGED <<attempted, failed>>
     ELSE LET call == [op |-> "complete", uploadId |-> upload_id,
                       archiveSize |-> str_int(byte_pos), checksum |-> total_tree_hash']
          IN /\ total_tree_hash' = calculate_total_tree_hash(list_of_checksums)
             /\ \/ /\ archive' = [archiveId |-> upload_id, location |-> upload_id,
                                  checksum |-> total_tree_hash', date |-> "date"]
                   /\ calls' = Append(calls, call @@ [ok |-> TRUE])
                   /\ pc' = "mark"
                   /\ UNCHANGED <<attempted, failed>>
                \/ ClientError(call @@ [ok |-> FALSE])
             /\ UNCHANGED <<exit_cause, exit_status, idx, locals, upload_id,
                            byte_pos, list_of_checksums>>
  /\ UNCHANGED <<config, records, flags, conn_open>>

\* backup(), lines 94-100: file_object.close() and _mark_backed_up.
Backup_mark ==
  /\ pc = "mark"
  /\ LET path == file_list[idx]
     IN \/ /\ archive # NoArchive
           /\ Exit("OSError")                \* os.path.getsize raises at line 251
           /\ UNCHANGED <<records>>
        \/ /\ archive # NoArchive
           /\ Exit("insert")                 \* sqlite3.OperationalError
           /\ UNCHANGED <<records>>
        \/ /\ records' = mark_backed_up_rows(records, path, files[path], archive, compress)
           /\ pc' = "loop" /\ idx' = idx + 1
           /\ ClearLocals /\ ClearSession
           /\ UNCHANGED <<exit_cause, exit_status>>
  /\ UNCHANGED <<config, flags, conn_open, history>>

\* backup(), lines 104-105: self.close().
Backup_finish ==
  /\ pc = "finish"
  /\ conn_open' = FALSE
  /\ pc' = "returned"
  /\ UNCHANGED <<config, records, exit_cause, exit_status, flags,
                 idx, locals, session, history>>

\* main() returns.
Main_return ==
  /\ pc = "returned"
  /\ Exit("normal")
  /\ UNCHANGED <<config, records, flags, conn_open, history>>

\* signal_handler, run by the interpreter between two steps of the main thread.
Signal ==
  /\ pc \notin {"init", "exited"}
  /\ stop_request_count' = stop_request_count + 1
  /\ IF below_force_limit(stop_request_count + 1)
     THEN /\ continue_running' = FALSE                       \* backup_util.stop()
          /\ stop_at' = IF ~continue_running THEN stop_at
                        ELSE IF pc \in IterationPcs THEN idx
                        ELSE IF pc = "enumerate" THEN 0 ELSE idx - 1
          /\ UNCHANGED <<pc, exit_cause, exit_status, conn_open, idx, locals, session>>
     ELSE /\ conn_open' = FALSE
          /\ IF conn_open
             THEN Exit("force")                              \* close(); sys.exit(0)
             ELSE Exit("ProgrammingError")                   \* commit on a closed db
          /\ UNCHANGED <<continue_running, stop_at>>
  /\ UNCHANGED <<config, records, history>>

Next ==
  \/ Main_start \/ Backup_enumerate \/ Backup_loop \/ Backup_check \/ Backup_compress
  \/ Backup_initiate \/ Backup_part \/ Backup_complete \/ Backup_mark \/ Backup_finish
  \/ Main_return \/ Signal

Spec == Init /\ [][Next]_vars

\* ------------------------------------- the source tree changes during a run
\* Another process rewrites the file of the current iteration, once, after
\* _check_if_backed_up has read its stat: any size, a later mtime.
Touch ==
  /\ pc \in IterationPcs \ {"check"}
  /\ LET path == file_list[idx]
     IN /\ files[path] = SourceTree[path]
        /\ \E size \in 0..MaxSize :
             files' = [files EXCEPT ![path] = [size |-> size, mtime |-> files[path].mtime + 1]]
  /\ UNCHANGED <<compress, base_part_size, start_nrec, records, pc, exit_cause, exit_status,
                 flags, conn_open, idx, locals, session, history>>

NextTouch == Next \/ Touch

SpecTouch == Init /\ [][NextTouch]_vars

\* ------------------------------------------------- FileCache on its own
\* Byte strings of at most n bytes over the bytes 1 and 2.
RECURSIVE BytesUpTo(_)
BytesUpTo(n) ==
  IF n = 0 THEN {<<>>}
  ELSE LET shorter == BytesUpTo(n - 1)
       IN shorter \cup {Append(b, x) : b \in {t \in shorter : Len(t) = n - 1}, x \in {1, 2}}

\* A FileCache built over any small file, with or without compression, read
\* with any read size; the rest of the program stands still.
InitFC ==
  /\ compress \in BOOLEAN
  /\ base_part_size = 1
  /\ files = SourceTree
  /\ records = <<>> /\ start_nrec = 0
  /\ pc = "fc" /\ exit_cause = "none" /\ exit_status = -1
  /\ continue_running = TRUE /\ stop_request_count = 0 /\ conn_open = FALSE
  /\ idx = 0
  /\ file_size = 0 /\ mtime = 0
  /\ part_size \in 1..(MaxLen + 2)
  /\ \E data \in BytesUpTo(MaxLen) : \E chunks \in Splits(zstd_compress(data)) :
       fc = FileCache(open_rb(data), compress, chunks)
  /\ reads = <<>>
  /\ upload_id = 0 /\ byte_pos = 0 /\ list_of_checksums = <<>>
  /\ archive = NoArchive /\ total_tree_hash = <<>> /\ calls = <<>>
  /\ attempted = {} /\ failed = {}
  /\ stop_at = -1

\* One call of read(part_size).
FC_read ==
  /\ pc = "fc"
  /\ Len(reads) < MaxReads
  /\ LET r == FileCache_read(fc, part_size)
     IN fc' = r.fc /\ reads' = Append(reads, r.rv)
  /\ UNCHANGED <<config, records, pc, exit_cause, exit_status, flags, conn_open, idx,
                 file_size, mtime, part_size, session, history>>

NextFC == FC_read

SpecFC == InitFC /\ [][NextFC]_vars

\* ------------------------------------------------ decide_part_size on its own
\* File sizes around the multiples of 10000.
FileSizes == {s \in {10000 * m + d : m \in 0..MaxFactor, d \in {-1, 0, 1}} : s >= 0}

\* A file of any of these sizes and any requested part size (args.part_size).
InitPS ==
  /\ compress = FALSE
  /\ base_part_size \in 1..MaxRequested
  /\ files = SourceTree
  /\ records = <<>> /\ start_nrec = 0
  /\ pc = "ps" /\ exit_cause = "none" /\ exit_status = -1
  /\ continue_running = TRUE /\ stop_request_count = 0 /\ conn_open = FALSE
  /\ idx = 0
  /\ file_size \in FileSizes /\ mtime = 0 /\ part_size = 0
  /\ fc = NoFile /\ reads = <<>>
  /\ upload_id = 0 /\ byte_pos = 0 /\ list_of_checksums = <<>>
  /\ archive = NoArchive /\ total_tree_hash = <<>> /\ calls = <<>>
  /\ attempted = {} /\ failed = {}
  /\ stop_at = -1

\* part_size = self.decide_part_size(file_size), line 86.
PS_decide ==
  /\ pc = "ps"
  /\ part_size' = decide_part_size(file_size, base_part_size)
  /\ pc' = "ps_done"
  /\ UNCHANGED <<config, records, exit_cause, exit_status, flags, conn_open, idx,
                 file_size, mtime, fc, reads, session, history>>

NextPS == PS_decide

SpecPS == InitPS /\ [][NextPS]_vars

\* --------------------------------------- calculate_total_tree_hash on its own
\* Lists of one to n part checksums, each of one of two parts.
RECURSIVE ChecksumLists(_)
ChecksumLists(n) ==
  IF n = 0 THEN {}
  ELSE LET shorter == ChecksumLists(n - 1)
       IN shorter \cup {<<part_checksum(<<x>>)>> : x \in {1, 2}}
                  \cup {Append(l, part_checksum(<<x>>)) :
                          l \in {t \in shorter : Len(t) = n - 1}, x \in {1, 2}}

\* _backup at line 220, with any non-empty list_of_checksums.
InitTH ==
  /\ compress = FALSE
  /\ base_part_size = 1
  /\ files = SourceTree
  /\ records = <<>> /\ start_nrec = 0
  /\ pc = "th" /\ exit_cause = "none" /\ exit_status = -1
  /\ continue_running = TRUE /\ stop_request_count = 0 /\ conn_open = FALSE
  /\ idx = 0
  /\ file_size = 0 /\ mtime = 0 /\ part_size = 0
  /\ fc = NoFile /\ reads = <<>>
  /\ upload_id = 0 /\ byte_pos = 0
  /\ list_of_checksums \in ChecksumLists(MaxDigests)
  /\ archive = NoArchive /\ total_tree_hash = <<>> /\ calls = <<>>
  /\ attempted = {} /\ failed = {}
  /\ stop_at = -1

\* total_tree_hash = self.calculate_total_tree_hash(list_of_checksums)
TH_calculate ==
  /\ pc = "th"
  /\ total_tree_hash' = calculate_total_tree_hash(list_of_checksums)
  /\ pc' = "th_done"
  /\ UNCHANGED <<config, records, exit_cause, exit_status, flags, conn_open, idx,
                 locals, upload_id, byte_pos, list_of_checksums, archive, calls, history>>

NextTH == TH_calculate

SpecTH == InitTH /\ [][NextTH]_vars

\* ------------------------------------------------------------------ claims
\* A step of the main thread (the signal handler alone counts the signals).
MainStep == stop_request_count' = stop_request_count

LastCall == calls[Len(calls)]
CompleteReturned == calls # <<>> /\ LastCall.op = "complete" /\ LastCall.ok

\* The rows this run inserted, by index.
NewRows == (start_nrec + 1)..Len(records)

\* An earlier run left a row that has exactly the stat the path has now.
ArchivedBefore(p) ==
  \E i \in 1..start_nrec :
    /\ records[i].path = p
    /\ records[i].file_size = files[p].size
    /\ records[i].mtime = files[p].mtime

C1_State ==
  /\ pc = "mark" =>
       /\ archive # NoArchive <=> CompleteReturned
       /\ archive # NoArchive => archive.archiveId = LastCall.uploadId
  /\ \A i \in NewRows : records[i].path \in attempted \ failed

C1_Step ==
  /\ records' # records =>
       /\ pc = "mark" /\ archive # NoArchive /\ CompleteReturned
       /\ Len(records') = Len(records) + 1
       /\ SubSeq(records', 1, Len(records)) = records
       /\ records'[Len(records')].path = file_list[idx]
       /\ records'[Len(records')].archive_id = LastCall.uploadId
  /\ pc = "mark" /\ archive = NoArchive => records' = records

\* C1: a row is inserted only by the _mark_backed_up call that follows a
\* complete_multipart_upload which returned in the same iteration, and it
\* carries that archive's id; when _backup returned None (any ClientError)
\* the iteration leaves the table as it was.
C1_RecordOnlyAfterComplete == [](C1_State) /\ [][C1_Step]_vars

C1_Witness ==
  /\ failed # {}
  /\ \E i \in NewRows : records[i].path \notin failed

C2_Step ==
  /\ Len(calls') > Len(calls) => file_list[idx] \notin failed
  /\ failed' # failed =>
       /\ pc' = "mark" /\ archive' = NoArchive
       /\ ~calls'[Len(calls')].ok
       /\ records' = records
  /\ pc = "mark" /\ archive = NoArchive /\ MainStep =>
       pc' = "loop" /\ idx' = idx + 1 /\ records' = records
  /\ pc = "loop" /\ idx <= NumFiles /\ continue_running /\ MainStep => pc' = "check"

\* C2: after a failed remote call the file gets no row, no remote call is
\* made for it again in the run, and the loop goes on to the next file of
\* the list, which is checked (and uploaded) as usual.
C2_RemoteFailureSkipsFile ==
  /\ [](\A i \in NewRows : records[i].path \notin failed)
  /\ [][C2_Step]_vars

C2_Witness ==
  \E p \in failed : \E i \in NewRows : records[i].path > p

\* C3: a run over a source every file of which an earlier run archived with
\* the stat it still has makes no remote call and inserts no row; file by
\* file, an archived and unchanged file is never uploaded or recorded again.
\* The rows a run inserts carry the stat the next lookup will compare with,
\* so the run after a successful one is such a run.
C3_DedupIdempotent ==
  /\ \A p \in Paths :
       ArchivedBefore(p) =>
         /\ p \notin attempted
         /\ \A i \in NewRows : records[i].path # p
         /\ pc \in IterationPcs \ {"check"} => file_list[idx] # p
  /\ (\A p \in Paths : ArchivedBefore(p)) =>
       attempted = {} /\ calls = <<>> /\ Len(records) = start_nrec
  /\ \A i \in NewRows :
       /\ records[i].file_size = files[records[i].path].size
       /\ records[i].mtime = files[records[i].path].mtime

C3_Witness ==
  /\ pc = "returned" /\ continue_running /\ idx = NumFiles + 1
  /\ \A p \in Paths : ArchivedBefore(p)
  /\ attempted = {} /\ Len(records) = start_nrec

\* Some row of the table has exactly the stat the path has now.
ExactRow(p) ==
  \E i \in 1..Len(records) :
    /\ records[i].path = p
    /\ records[i].file_size = files[p].size
    /\ records[i].mtime = files[p].mtime

C4_Step ==
  /\ pc = "check" /\ pc' = "loop" => ExactRow(file_list[idx])
  /\ pc = "check" /\ MainStep /\ pc' # "exited" /\ ~ExactRow(file_list[idx]) =>
       pc' = "compress"
  /\ Len(records') >= Len(records) /\ SubSeq(records', 1, Len(records)) = records

\* C4: a file is skipped only when a row has its path, size and mtime
\* exactly; otherwise it goes to upload, and rows are only ever appended: a
\* re-upload adds a second row for the path and leaves the earlier one.
C4_DedupExactAppendOnly == [][C4_Step]_vars

C4_Witness ==
  /\ \E i \in 1..start_nrec : \E j \in NewRows :
       /\ records[i].path = records[j].path
       /\ records[i].file_size = records[j].file_size
       /\ records[i].mtime # records[j].mtime
  /\ \E i \in 1..start_nrec : \E j \in NewRows :
       /\ records[i].path = records[j].path
       /\ records[i].file_size # records[j].file_size
       /\ records[i].mtime = records[j].mtime

C5_State ==
  /\ ~continue_running =>
       /\ pc \in IterationPcs => idx = stop_at
       /\ pc \in {"loop", "finish", "returned"} => idx <= stop_at + 1
       /\ \A p \in attempted : p <= stop_at
       /\ \A i \in NewRows : records[i].path <= stop_at
  /\ stop_at = 1 /\ start_nrec = 0 /\ pc = "returned" /\ 1 \in attempted \ failed =>
       Len(records) = 1 /\ records[1].path = 1

C5_Step ==
  continue_running /\ ~continue_running' =>
    UNCHANGED <<pc, idx, locals, session, records, history, conn_open>>

\* C5: stop() only clears the flag; the iteration it arrives in runs on to
\* its end (its row included), the flag is read at the head of the loop
\* alone, and no later file is checked, uploaded or recorded.  A stop in the
\* first iteration of a fresh table, the first file archived, leaves one row.
C5_StopAtLoopHeadOnly == [](C5_State) /\ [][C5_Step]_vars

C5_Witness ==
  /\ NumFiles >= 3
  /\ pc = "returned" /\ stop_at = 1 /\ idx = 2
  /\ start_nrec = 0 /\ Len(records) = 1 /\ records[1].path = 1
  /\ attempted = {1}

C6_State ==
  /\ stop_request_count <= FORCE_STOP_LIMIT
  /\ stop_request_count >= FORCE_STOP_LIMIT =>
       pc = "exited" /\ ~conn_open /\ exit_cause \in {"force", "ProgrammingError"}
  /\ exit_cause = "force" => stop_request_count = FORCE_STOP_LIMIT

C6_Step ==
  /\ ~MainStep /\ stop_request_count' < FORCE_STOP_LIMIT =>
       /\ ~continue_running'
       /\ UNCHANGED <<pc, exit_cause, exit_status, conn_open, records, idx, locals,
                      session, history>>
  /\ ~MainStep /\ stop_request_count' < FORCE_STOP_LIMIT /\ ~continue_running =>
       UNCHANGED <<continue_running, stop_at>>
  /\ ~MainStep /\ stop_request_count' >= FORCE_STOP_LIMIT =>
       /\ pc' = "exited" /\ ~conn_open'
       /\ UNCHANGED <<records, history>>
  /\ pc # "exited"

\* C6: the first two signals only clear continue_running (the second changes
\* nothing but the count); the third ends the process at once with the store
\* closed, wherever the loop is, and an ended process takes no further step.
C6_SignalEscalation == [](C6_State) /\ [][C6_Step]_vars

C6_Witness ==
  /\ pc = "exited" /\ exit_cause = "force" /\ ~conn_open
  /\ stop_request_count = FORCE_STOP_LIMIT
  /\ \E p \in attempted \ failed : \A i \in NewRows : records[i].path # p

C7_State ==
  pc = "exited" /\ exit_cause \in DbFaults =>
    /\ exit_status # 0
    /\ \A c \in DbFaults \ {exit_cause} : exit_status # exit_status_of(c)

C7_Step ==
  /\ exit_cause' \in DbFaults /\ exit_cause' # exit_cause =>
       pc' = "exited" /\ records' = records /\ UNCHANGED history
  /\ pc # "exited"

\* C7: an OperationalError in the schema creation, the lookup or the insert
\* ends the process in that step, with no row written and no remote call
\* after it, and with a status that is not 0 and differs from the status of
\* the other two.
C7_DbFaultIsFatal == [](C7_State) /\ [][C7_Step]_vars

C7_Witness ==
  /\ pc = "exited" /\ exit_cause = "lookup" /\ exit_status = 3
  /\ attempted # {} /\ Cardinality(attempted) < NumFiles

\* C8: an OSError from open (or stat) of a candidate file does not end the
\* run: the file is logged as failed and the loop goes on.
C8_IOErrorContinues == ~(pc = "exited" /\ exit_cause = "OSError")

\* The bytes among the first k values read() returned.
RECURSIVE BytesRead(_)
BytesRead(k) ==
  IF k = 0 THEN <<>>
  ELSE BytesRead(k - 1) \o (IF reads[k] = None THEN <<>> ELSE reads[k])

\* C9: without a codec each read returns the next min(n, remaining) bytes of
\* the file, and every read after the one that drained it returns None.
C9_NoCodecSentinel ==
  pc = "fc" /\ ~fc.compression =>
    \A k \in 1..Len(reads) :
      LET before == Len(BytesRead(k - 1))
          size == Len(fc.f.data)
      IN IF before < size \/ k = 1
         THEN reads[k] = SubSeq(fc.f.data, before + 1, Min(before + part_size, size))
         ELSE reads[k] = None

\* C10: with a codec, what the reads returned, then the pending buffer, then
\* the chunks not yet pulled, is always the producer's output in order; once
\* the sentinel state is reached the reads are that whole output, and
\* decompressing them gives the file back.
C10_CodecStreamPreserved ==
  pc = "fc" /\ fc.compression =>
    LET out == BytesRead(Len(reads))
        pending == IF fc.next_chunk = None THEN <<>> ELSE fc.next_chunk
        unread == Concat(SubSeq(fc.reader.chunks, fc.reader.idx + 1, Len(fc.reader.chunks)))
    IN /\ out \o pending \o unread = Concat(fc.reader.chunks)
       /\ fc.next_chunk = None =>
            /\ out = Concat(fc.reader.chunks)
            /\ zstd_decompress(out) = fc.f.data

C10_Witness ==
  /\ pc = "fc" /\ fc.compression /\ fc.next_chunk = None
  /\ \E i, j \in 1..Len(fc.reader.chunks) :
       Len(fc.reader.chunks[i]) < part_size /\ Len(fc.reader.chunks[j]) > part_size
  /\ Len(reads) >= 3 /\ reads[Len(reads)] = None
  /\ Len(BytesRead(Len(reads))) = MaxLen + 1

RECURSIVE Pow2(_)
Pow2(k) == IF k = 0 THEN 1 ELSE 2 * Pow2(k - 1)

C12_ReadSizeDiscipline ==
  pc = "fc" /\ fc.compression =>
    LET stream == Concat(fc.reader.chunks)
        full == Len(stream) \div part_size
    IN /\ \A k \in 1..Len(reads) :
            /\ k <= full => reads[k] = SubSeq(stream, (k - 1) * part_size + 1, k * part_size)
            /\ k = full + 1 => /\ reads[k] = SubSeq(stream, full * part_size + 1, Len(stream))
                               /\ Len(reads[k]) < part_size
            /\ k > full + 1 => reads[k] = None
       /\ fc.next_chunk = None <=> Len(reads) > full

C12_Witness ==
  /\ pc = "fc" /\ fc.compression
  /\ Len(reads) = 4
  /\ Len(reads[1]) = part_size /\ Len(reads[2]) = part_size
  /\ reads[3] # None /\ Len(reads[3]) < part_size
  /\ reads[4] = None
  /\ Len(fc.reader.chunks) > 1

C13_State ==
  /\ pc = "initiate" => calls = <<>>
  /\ pc \in {"part", "complete"} => calls # <<>> /\ \A k \in 1..Len(calls) : calls[k].ok
  /\ calls # <<>> =>
       /\ calls[1].op = "initiate"
       /\ calls[1].description[1] = file_list[idx]
       /\ \A k \in 2..Len(calls) :
            /\ calls[k].op \in {"part", "complete"}
            /\ calls[1].ok
            /\ calls[k].uploadId = calls[1].uploadId
       /\ \A k \in 1..(Len(calls) - 1) : calls[k].ok /\ calls[k].op # "complete"
       /\ LastCall.op = "complete" => reads # <<>> /\ reads[Len(reads)] = None

C13_Step ==
  calls' # calls =>
    \/ /\ calls' = <<>>
       /\ \/ pc' = "exited"
          \/ pc = "mark" /\ (LastCall.op = "complete" \/ ~LastCall.ok)
    \/ /\ Len(calls') = Len(calls) + 1
       /\ SubSeq(calls', 1, Len(calls)) = calls
       /\ calls # <<>> => LastCall.ok /\ LastCall.op # "complete"

\* C13: the remote calls of one file are one initiate, then upload-part calls
\* carrying the uploadId that initiate returned, then at most one complete
\* with the same uploadId; parts and complete need a successful initiate,
\* complete comes only after every part succeeded and the source returned
\* None, nothing follows a failed call, and the calls of one file end
\* (complete or failure) before the next file's initiate.
C13_UploadProtocolOrder == [](C13_State) /\ [][C13_Step]_vars

C13_Witness ==
  /\ pc = "mark" /\ idx > 1
  /\ Len(calls) >= 4
  /\ calls[2].op = "part" /\ calls[3].op = "part"
  /\ LastCall.op = "complete" /\ LastCall.ok

\* The number of bytes in the bodies of the calls 2..k of the log.
RECURSIVE SentBytes(_)
SentBytes(k) == IF k < 2 THEN 0 ELSE SentBytes(k - 1) + Len(calls[k].body)

\* C14: the first part's range starts at 0, each part's range is
\* "bytes start-(start+len-1)/*" with start one past the previous part's end,
\* and the archiveSize given to complete is the sum of the lengths of the
\* chunks sent as parts.
C14_ByteRangeBookkeeping ==
  calls # <<>> =>
    /\ \A k \in 2..Len(calls) :
         calls[k].op = "part" =>
           /\ calls[k].range.unit = "bytes" /\ calls[k].range.total = "*"
           /\ int_of(calls[k].range.first) = SentBytes(k - 1)
           /\ int_of(calls[k].range.last) = SentBytes(k - 1) + Len(calls[k].body) - 1
           /\ k = 2 => int_of(calls[k].range.first) = 0
           /\ k > 2 => int_of(calls[k].range.first) = int_of(calls[k - 1].range.last) + 1
    /\ LastCall.op = "complete" => int_of(LastCall.archiveSize) = SentBytes(Len(calls) - 1)

C14_Witness ==
  /\ pc = "mark"
  /\ Len(calls) >= 4
  /\ LastCall.op = "complete" /\ LastCall.ok
  /\ int_of(calls[2].range.last) = 0
  /\ int_of(calls[3].range.first) = 1 /\ int_of(calls[3].range.last) = 1
  /\ int_of(LastCall.archiveSize) = 2

\* The checksums the service returned for the parts logged as calls 2..n.
ReturnedChecksums(n) == [k \in 1..(n - 1) |-> calls[k + 1].response.checksum]

\* C15: the list the loop keeps is the checksums the service returned for this
\* file's parts, one per part, in upload order, and the checksum given to
\* complete is calculate_total_tree_hash of that list.
C15_ChecksumOfReturnedParts ==
  /\ pc \in {"part", "complete"} => list_of_checksums = ReturnedChecksums(Len(calls))
  /\ calls # <<>> /\ LastCall.op = "complete" =>
       LastCall.checksum = calculate_total_tree_hash(ReturnedChecksums(Len(calls) - 1))

C15_Witness ==
  /\ pc = "mark"
  /\ Len(calls) = 5
  /\ LastCall.op = "complete" /\ LastCall.ok
  /\ calls[2].response.checksum # calls[3].response.checksum
  /\ calls[3].response.checksum # calls[4].response.checksum

\* Strict left-to-right pairing of a list: the first two digests are hashed
\* together, then the next two, ...; a last digest without a partner stays.
RECURSIVE PairUp(_)
PairUp(s) ==
  IF Len(s) < 2 THEN s
  ELSE <<sha256_pair(s[1], s[2])>> \o PairUp(Tail(Tail(s)))

RECURSIVE PairwiseFold(_)
PairwiseFold(s) == IF Len(s) = 1 THEN s[1] ELSE PairwiseFold(PairUp(s))

C16_State ==
  pc = "th_done" =>
    LET l == list_of_checksums
    IN /\ total_tree_hash = PairwiseFold(l)
       /\ Len(l) = 1 => total_tree_hash = l[1]
       /\ Len(l) = 2 => total_tree_hash = sha256_pair(l[1], l[2])
       /\ Len(l) = 3 => total_tree_hash = sha256_pair(sha256_pair(l[1], l[2]), l[3])

C16_Step == list_of_checksums' = list_of_checksums

\* C16: on a non-empty list calculate_total_tree_hash returns what repeated
\* levels of strict left-to-right pairing leave (an unpaired last digest is
\* carried up unchanged): the element itself for one digest,
\* hash(hash(a,b),c) for [a,b,c]; and the list given is left as it was.
C16_TreeHashFold == [](C16_State) /\ [][C16_Step]_vars

C16_Witness ==
  /\ pc = "th_done"
  /\ Len(list_of_checksums) = 3
  /\ list_of_checksums[1] # list_of_checksums[2]
  /\ total_tree_hash =
       sha256_pair(sha256_pair(list_of_checksums[1], list_of_checksums[2]), list_of_checksums[3])

\* The bytes the source of the current session has to give.
SourceLen == IF fc.compression THEN Len(Concat(fc.reader.chunks)) ELSE Len(fc.f.data)

\* The upload-part calls a source of that length needs: one per full
\* part_size bytes and one for the remainder.
PartsNeeded == SourceLen \div part_size + 1

\* C17: with upload-part calls that succeed, the loop of a session uploads no
\* more parts than its finite source needs, then reads None and leaves the
\* loop for complete.
C17_UploadLoopTerminates ==
  pc = "part" => Len(list_of_checksums) <= PartsNeeded

\* The same bound for sessions that compress.
C17_CodecLoopTerminates ==
  pc = "part" /\ compress => Len(list_of_checksums) <= PartsNeeded

C18_Step ==
  records' # records =>
    LET row == records'[Len(records')]
    IN /\ row.file_size = file_size /\ row.mtime = mtime
       /\ <<row.path, row.file_size, row.mtime>> = calls[1].description

\* C18: the file_size and mtime of an inserted row are the ones
\* _check_if_backed_up read at the start of the iteration and the archive
\* description carries, also when the file is rewritten during the upload.
C18_RecordMatchesUploadedVersion == [][C18_Step]_vars

\* C19: whatever the interleaving of stop signals with the main thread, the
\* connection is open whenever close() (its commit and its close) is called
\* on it: the forced stop never finds the store already closed by backup().
C19_NoUseAfterClose ==
  /\ pc = "exited" => exit_cause # "ProgrammingError"
  /\ pc \in IterationPcs => conn_open

\* C20: the first read of a source never returns None, so a session that
\* gets to computing the whole-archive checksum has uploaded at least one
\* part: calculate_total_tree_hash is never given an empty list, for an empty
\* file too, with and without a codec.
C20_ChecksumListNeverEmpty ==
  /\ pc \in {"part", "complete"} /\ reads # <<>> => reads[1] # None
  /\ pc = "complete" => list_of_checksums # <<>>
  /\ pc = "exited" => exit_cause # "IndexError"

C20_Witness ==
  /\ pc = "complete"
  /\ file_size = 0
  /\ Len(reads) = 2 /\ reads[2] = None
  /\ Len(list_of_checksums) = 1

====
